---- MODULE Spec2Model ----
(***************************************************************************)
(* A model of the MPlot interaction tools (MPlotTools.cpp, carried in      *)
(* src/src/MPlot/MPlotRectangle.h) and of the plot's deferred autoscale    *)
(* (MPlot.h).  qreal values are modelled as exact rationals <<n, d>>.      *)
(***************************************************************************)
EXTENDS Integers, Sequences, FiniteSets, TLC

VARIABLES
    \* MPlotDragZoomerTool
    dragStarted_, dragInProgress_, oldZooms_, targetAxes_, selectionRect_,
    buttonDownPos,
    \* MPlotAxisScale (one per axis)
    dataRange, autoScaleEnabled,
    \* MPlot
    autoScaleScheduled_, pendingTimers,
    \* MPlotWheelZoomerTool
    zf_, wheelTargetAxes_,
    \* MPlotPlotSelectorTool (selIndex is the function-local static)
    selIndex, selectedItem_, isSelected,
    \* history: the last handler that ran, the calls and signals it made,
    \* counters, the ranges before each zoom still on the recall stack, and
    \* each selector's previous press
    last, calls, zooms, trail, wheels, pressed,
    \* MPlotCursorTool (activeCursor is the function-local static), whether a
    \* press ran into undefined behaviour, and the cursors each tool has moved
    activeCursor, cursors_, crashed, movedCursors,
    \* MPlotRealtimeModel
    xval_, yval_, minYIndex_, maxYIndex_, minXIndex_, maxXIndex_

vars == <<dragStarted_, dragInProgress_, oldZooms_, targetAxes_, selectionRect_,
          buttonDownPos, dataRange, autoScaleEnabled, autoScaleScheduled_,
          pendingTimers, zf_, wheelTargetAxes_, selIndex, selectedItem_,
          isSelected, last, calls, zooms, trail, wheels, pressed,
          activeCursor, cursors_, crashed, movedCursors,
          xval_, yval_, minYIndex_, maxYIndex_, minXIndex_, maxXIndex_>>

dragVars == <<dragStarted_, dragInProgress_, oldZooms_, targetAxes_,
              selectionRect_, buttonDownPos>>
axisVars == <<dataRange, autoScaleEnabled>>
plotVars == <<autoScaleScheduled_, pendingTimers>>
selVars == <<selIndex, selectedItem_, isSelected, pressed>>
wheelVars == <<zf_, wheelTargetAxes_, wheels>>
countVars == <<zooms, trail>>
cursorVars == <<activeCursor, cursors_, crashed, movedCursors>>
modelVars == <<xval_, yval_, minYIndex_, maxYIndex_, minXIndex_, maxXIndex_>>

-----------------------------------------------------------------------------
(* Bounds of the model *)

\* completed drag zooms in one behaviour
MaxZooms == 2
\* zero-delay timers queued in the event loop at one time
MaxTimers == 2
\* side of the square drawing area, in drawing coordinates
DrawingSize == 16

-----------------------------------------------------------------------------
(* qreal arithmetic, exact *)

Abs(n) == IF n < 0 THEN -n ELSE n

RECURSIVE GCD(_, _)
GCD(a, b) == IF b = 0 THEN a ELSE GCD(b, a % b)

\* the rational n/d (d # 0) in lowest terms with a positive denominator
Rat(n, d) ==
    LET g == GCD(Abs(n), Abs(d))
        s == IF d < 0 THEN -1 ELSE 1
    IN  <<(s * n) \div g, Abs(d) \div g>>

RInt(n) == <<n, 1>>
RAdd(p, q) == Rat(p[1] * q[2] + q[1] * p[2], p[2] * q[2])
RSub(p, q) == Rat(p[1] * q[2] - q[1] * p[2], p[2] * q[2])
RMul(p, q) == Rat(p[1] * q[1], p[2] * q[2])
RDiv(p, q) == Rat(p[1] * q[2], p[2] * q[1])
RLess(p, q) == p[1] * q[2] < q[1] * p[2]
RAbs(p) == <<Abs(p[1]), p[2]>>
RMin(p, q) == IF RLess(q, p) THEN q ELSE p

-----------------------------------------------------------------------------
(* MPlotAxisScale and MPlotAxisRange *)

Axes == {"Left", "Bottom"}

orientation(a) == IF a = "Left" THEN "Vertical" ELSE "Horizontal"

\* MPlotAxisRange(min, max): the two ends, kept in order
AxisRange(a, b) == IF RLess(b, a) THEN <<b, a>> ELSE <<a, b>>

\* MPlotAxisScale::mapDrawingToData(qreal): linear over the drawing size; the
\* drawing y coordinate grows downwards
mapDrawingToData(a, r, d) ==
    LET frac == RDiv(d, RInt(DrawingSize))
        len == RSub(r[2], r[1])
    IN  IF orientation(a) = "Vertical"
        THEN RSub(r[2], RMul(frac, len))
        ELSE RAdd(r[1], RMul(frac, len))

\* MPlotAxisScale::mapDrawingToData(MPlotAxisRange)
mapDrawingRangeToData(a, r, lo, hi) ==
    AxisRange(mapDrawingToData(a, r, lo), mapDrawingToData(a, r, hi))

\* the extent of the plotted items along each axis, which autoscale fits
ItemExtent(a) ==
    IF a = "Left" THEN <<RInt(2), RInt(10)>> ELSE <<RInt(1), RInt(5)>>

\* the axis ranges a plot starts with
InitialRange(a) ==
    IF a = "Left" THEN <<RInt(0), RInt(32)>> ELSE <<RInt(0), RInt(16)>>

SetDataRangeCall(a, r) == [fn |-> "setDataRange", on |-> a, arg |-> r]
SetAutoScaleCall(a, b) == [fn |-> "setAutoScaleEnabled", on |-> a, arg |-> b]

-----------------------------------------------------------------------------
(* The state a handler works on while it runs: the axis scales, the plot's  *)
(* autoscale schedule, and the calls made so far.                           *)

Here ==
    [ranges |-> dataRange, auto |-> autoScaleEnabled,
     sched |-> autoScaleScheduled_, timers |-> pendingTimers, calls |-> <<>>]

\* MPlot::scheduleDelayedAutoScale: one zero-delay timer per schedule
scheduleDelayedAutoScale(st) ==
    IF st.sched THEN st
    ELSE [st EXCEPT !.sched = TRUE, !.timers = @ + 1]

\* MPlotAxisScale::setDataRange(range, applyPadding = false)
setDataRange(st, a, r) ==
    [st EXCEPT !.ranges[a] = r, !.calls = Append(@, SetDataRangeCall(a, r))]

\* MPlotAxisScale::setAutoScaleEnabled; the plot hears autoScaleEnabledChanged
\* and schedules an autoscale when an axis turns it on
setAutoScaleEnabled(st, a, b) ==
    LET st1 == [st EXCEPT !.auto[a] = b,
                          !.calls = Append(@, SetAutoScaleCall(a, b))]
    IN  IF b /\ ~st.auto[a] THEN scheduleDelayedAutoScale(st1) ELSE st1

-----------------------------------------------------------------------------
(* MPlotDragZoomerTool *)

MPLOT_RUBBERBAND_DEADZONE == 6

Buttons == {"Left", "Right"}
\* where the mouse goes: within the dead zone of each other, or a real drag
\* along one axis or both
Points == {<<0, 0>>, <<4, 0>>, <<8, 8>>}

manhattanLength(p, q) == Abs(p[1] - q[1]) + Abs(p[2] - q[2])

Contains(list, x) == \E i \in 1..Len(list) : list[i] = x

\* the dead zone test of mouseMoveEvent
BeyondDeadzone(down, p) == manhattanLength(down, p) > MPLOT_RUBBERBAND_DEADZONE

\* a loop that turns autoscale off on the first target axis only
DisableTargetsFirstOnly(i, st, targets) ==
    IF i > Len(targets) THEN st
    ELSE setAutoScaleEnabled(st, targets[i], FALSE)

\* the loop of mouseMoveEvent: autoscale off on every target axis
RECURSIVE DisableTargets(_, _, _)
DisableTargets(i, st, targets) ==
    IF i > Len(targets) THEN st
    ELSE DisableTargets(i + 1, setAutoScaleEnabled(st, targets[i], FALSE), targets)

\* a loop that turns autoscale on for all target axes but the last
RECURSIVE EnableTargetsButLast(_, _, _)
EnableTargetsButLast(i, st, targets) ==
    IF i >= Len(targets) THEN st
    ELSE EnableTargetsButLast(i + 1, setAutoScaleEnabled(st, targets[i], TRUE),
                              targets)

\* the loop of the right-button branch with an empty stack
RECURSIVE EnableTargets(_, _, _)
EnableTargets(i, st, targets) ==
    IF i > Len(targets) THEN st
    ELSE EnableTargets(i + 1, setAutoScaleEnabled(st, targets[i], TRUE), targets)

\* one pass of the zoom loop, with the axis's old range recorded AFTER the new
\* one is set
ZoomOneAxisRecordsNew(axis, z, down, up) ==
    LET vertical == orientation(axis) = "Vertical"
        newRangeMin == IF vertical THEN down[2] ELSE down[1]
        newRangeMax == IF vertical THEN up[2] ELSE up[1]
        lo == IF newRangeMin > newRangeMax THEN newRangeMax ELSE newRangeMin
        hi == IF newRangeMin > newRangeMax THEN newRangeMin ELSE newRangeMax
        st1 == setDataRange(z.st, axis,
                   mapDrawingRangeToData(axis, z.st.ranges[axis], RInt(lo), RInt(hi)))
    IN  [st |-> st1, list |-> Append(z.list, <<axis, st1.ranges[axis]>>)]

\* one pass of the zoom loop of mouseReleaseEvent
ZoomOneAxis(axis, z, down, up) ==
    LET vertical == orientation(axis) = "Vertical"
        newRangeMin == IF vertical THEN down[2] ELSE down[1]
        newRangeMax == IF vertical THEN up[2] ELSE up[1]
        lo == IF newRangeMin > newRangeMax THEN newRangeMax ELSE newRangeMin
        hi == IF newRangeMin > newRangeMax THEN newRangeMin ELSE newRangeMax
        list1 == Append(z.list, <<axis, z.st.ranges[axis]>>)
    IN  [st |-> setDataRange(z.st, axis,
                   mapDrawingRangeToData(axis, z.st.ranges[axis], RInt(lo), RInt(hi))),
         list |-> list1]

RECURSIVE ZoomTargets(_, _, _, _, _)
ZoomTargets(i, z, targets, down, up) ==
    IF i > Len(targets) THEN z
    ELSE ZoomTargets(i + 1, ZoomOneAxis(targets[i], z, down, up), targets, down, up)

\* taking the oldest entry of the recall stack
TakeFirst(stack) == [entry |-> stack[1], rest |-> SubSeq(stack, 2, Len(stack))]

\* QStack::pop on the recall stack: the newest entry, and what is left
Pop(stack) ==
    [entry |-> stack[Len(stack)], rest |-> SubSeq(stack, 1, Len(stack) - 1)]

\* the restore loop that sets every recorded axis, target or not
RestoreOneAxisAnyAxis(setting, st, targets) ==
    setDataRange(st, setting[1], setting[2])

\* one pass of the restore loop: only a current target axis is set
RestoreOneAxis(setting, st, targets) ==
    IF Contains(targets, setting[1])
    THEN setDataRange(st, setting[1], setting[2])
    ELSE st

RECURSIVE RestoreZoom(_, _, _, _)
RestoreZoom(i, st, oldZoomList, targets) ==
    IF i > Len(oldZoomList) THEN st
    ELSE RestoreZoom(i + 1, RestoreOneAxis(oldZoomList[i], st, targets),
                     oldZoomList, targets)

\* what a handler leaves behind in the axis scales and the plot
Commit(st) ==
    /\ dataRange' = st.ranges
    /\ autoScaleEnabled' = st.auto
    /\ autoScaleScheduled_' = st.sched
    /\ pendingTimers' = st.timers
    /\ calls' = st.calls

\* the handler that ran last, with the event's button and, when the handler
\* read it, the event's position
Event(op, b, p) == [op |-> op, button |-> b, pos |-> p]

NoPoint == <<-1, -1>>

\* MPlotDragZoomerTool::mousePressEvent; the scene remembers where the left
\* button went down
DragPress(b, p) ==
    /\ b = "Left" => zooms < MaxZooms
    /\ dragStarted_' = IF b = "Left" THEN TRUE ELSE dragStarted_
    /\ buttonDownPos' = IF b = "Left" THEN p ELSE buttonDownPos
    /\ last' = Event("dragPress", b, IF b = "Left" THEN p ELSE NoPoint)
    /\ calls' = <<>>
    /\ UNCHANGED <<cursorVars, modelVars, dragInProgress_, oldZooms_, targetAxes_, selectionRect_,
                   axisVars, plotVars, wheelVars, selVars, countVars>>

\* MPlotDragZoomerTool::mouseMoveEvent
DragMove(p) ==
    LET farEnough == dragStarted_ /\ BeyondDeadzone(buttonDownPos, p)
        st == IF farEnough THEN DisableTargets(1, Here, targetAxes_) ELSE Here
        inProgress == IF farEnough THEN TRUE ELSE dragInProgress_
    IN  /\ dragInProgress_' = inProgress
        /\ dragStarted_' = IF farEnough THEN FALSE ELSE dragStarted_
        /\ selectionRect_' = IF inProgress THEN <<buttonDownPos, p>> ELSE selectionRect_
        /\ Commit(st)
        /\ last' = Event("dragMove", "None",
                          IF dragStarted_ \/ dragInProgress_ THEN p ELSE NoPoint)
        /\ UNCHANGED <<cursorVars, modelVars, oldZooms_, targetAxes_, buttonDownPos, wheelVars, selVars,
                       zooms, trail>>

\* MPlotDragZoomerTool::mouseReleaseEvent
DragRelease(b, p) ==
    LET zoom == b = "Left" /\ dragInProgress_
        z == IF zoom
             THEN ZoomTargets(1, [st |-> Here, list |-> <<>>], targetAxes_,
                              buttonDownPos, p)
             ELSE [st |-> Here, list |-> <<>>]
        stack1 == IF zoom THEN Append(oldZooms_, z.list) ELSE oldZooms_
        inProgress1 == IF b = "Left" THEN FALSE ELSE dragInProgress_
        goBack == ~inProgress1 /\ b = "Right"
        pop == goBack /\ Len(stack1) > 0
        st2 == IF pop
               THEN RestoreZoom(1, z.st, Pop(stack1).entry, targetAxes_)
               ELSE IF goBack THEN EnableTargets(1, z.st, targetAxes_)
               ELSE z.st
    IN  /\ dragStarted_' = IF b = "Left" THEN FALSE ELSE dragStarted_
        /\ selectionRect_' = IF b = "Left" THEN "null" ELSE selectionRect_
        /\ dragInProgress_' = inProgress1
        /\ oldZooms_' = IF pop THEN Pop(stack1).rest ELSE stack1
        /\ Commit(st2)
        /\ zooms' = IF zoom THEN zooms + 1 ELSE zooms
        /\ trail' = IF zoom THEN Append(trail, dataRange)
                    ELSE IF pop /\ Len(trail) > 0
                         THEN SubSeq(trail, 1, Len(trail) - 1)
                         ELSE trail
        /\ last' = Event("dragRelease", b, IF zoom THEN p ELSE NoPoint)
        /\ UNCHANGED <<cursorVars, modelVars, targetAxes_, buttonDownPos, wheelVars, selVars>>

\* MPlotAbstractTool::setTargetAxes on the drag zoomer
TargetLists == {<<"Left", "Bottom">>, <<"Bottom">>}

SetTargetAxes(list) ==
    /\ list # targetAxes_
    /\ targetAxes_' = list
    /\ trail' = <<>>
    /\ last' = Event("setTargetAxes", "None", NoPoint)
    /\ calls' = <<>>
    /\ UNCHANGED <<cursorVars, modelVars, dragStarted_, dragInProgress_, oldZooms_, selectionRect_,
                   buttonDownPos, axisVars, plotVars, wheelVars, selVars, zooms>>

-----------------------------------------------------------------------------
(* MPlot: deferred autoscale *)

AxisList == <<"Left", "Bottom">>

\* the recomputation: every axis scale with autoscale on is fitted to its items
RECURSIVE AutoScaleAxes(_, _)
AutoScaleAxes(i, st) ==
    IF i > Len(AxisList) THEN st
    ELSE AutoScaleAxes(i + 1,
            IF st.auto[AxisList[i]]
            THEN setDataRange(st, AxisList[i], ItemExtent(AxisList[i]))
            ELSE st)

RecomputeCall == [fn |-> "autoScale", on |-> "plot", arg |-> TRUE]

\* a doDelayedAutoScale that recomputes whether or not one is scheduled
doDelayedAutoScaleUnguarded(st) ==
    [AutoScaleAxes(1, [st EXCEPT !.calls = Append(@, RecomputeCall)])
        EXCEPT !.sched = FALSE]

\* MPlot::doDelayedAutoScale
doDelayedAutoScale(st) ==
    IF st.sched
    THEN [AutoScaleAxes(1, [st EXCEPT !.calls = Append(@, RecomputeCall)])
            EXCEPT !.sched = FALSE]
    ELSE st

\* MPlot::onBoundsChanged: a plot item's bounds changed
OnBoundsChanged ==
    /\ pendingTimers < MaxTimers
    /\ Commit(scheduleDelayedAutoScale(Here))
    /\ last' = Event("boundsChanged", "None", NoPoint)
    /\ UNCHANGED <<cursorVars, modelVars, dragVars, wheelVars, selVars, zooms, trail>>

\* MPlotAxisScale::setAutoScaleEnabled called by the application
SetAxisAutoScale(a, b) ==
    /\ pendingTimers < MaxTimers
    /\ Commit(setAutoScaleEnabled(Here, a, b))
    /\ last' = Event("setAutoScaleEnabled", "None", NoPoint)
    /\ UNCHANGED <<cursorVars, modelVars, dragVars, wheelVars, selVars, zooms, trail>>

AfterAutoScale(st0, op) ==
    LET st == doDelayedAutoScale(st0)
    IN  /\ Commit(st)
        /\ trail' = IF st.ranges # dataRange THEN <<>> ELSE trail
        /\ last' = Event(op, "None", NoPoint)
        /\ UNCHANGED <<cursorVars, modelVars, dragVars, wheelVars, selVars, zooms>>

\* control returns to the event loop: a pending zero-delay timer fires
\* MPlotSignalHandler::doDelayedAutoscale
EventLoopTimer ==
    /\ pendingTimers > 0
    /\ AfterAutoScale([Here EXCEPT !.timers = @ - 1], "timer")

\* a manual call of MPlot::doDelayedAutoScale
ManualAutoScale == AfterAutoScale(Here, "manual")

-----------------------------------------------------------------------------
(* MPlotPlotSelectorTool.  Each selector tool sits on its own plot; selIndex *)
(* is the static local of mousePressEvent, one for all the tools.            *)

\* selector presses in one behaviour
MaxPresses == 4
\* items on each plot
NumItems == 3

Tools == {1, 2}
Items == 1..NumItems

\* plot()->plotItems(), in the plot's order
PlotItems == [i \in 1..NumItems |-> i]

\* the filtered list: the selectable items whose shape meets the click region
selectedPossibilities(hit) == SelectSeq(PlotItems, LAMBDA i : i \in hit)

\* s = selectedPossibilities.at((selIndex++) % count), or 0 (MaxPresses keeps
\* the unsigned counter far from wrapping)
ChooseItem(poss, index) ==
    IF Len(poss) > 0
    THEN [s |-> poss[(index % Len(poss)) + 1], index |-> index + 1]
    ELSE [s |-> 0, index |-> index]

SetSelectedCall(i, b) == [fn |-> "setSelected", on |-> i, arg |-> b]
ItemSelectedSignal(i) == [fn |-> "itemSelected", on |-> "signal", arg |-> i]
DeselectedSignal == [fn |-> "deselected", on |-> "signal", arg |-> 0]

\* MPlotItem::setSelected on an item of the tool's plot
setSelected(sel, i, b) ==
    [sel EXCEPT !.selected[i] = b, !.calls = Append(@, SetSelectedCall(i, b))]

\* a selection move that leaves the old item selected
MoveSelectionKeepsOld(sel, s) ==
    IF s # 0 /\ s # sel.item
    THEN [setSelected(sel, s, TRUE)
            EXCEPT !.item = s, !.calls = Append(@, ItemSelectedSignal(s))]
    ELSE sel

\* "If we found one, and it's not the same as the old one"
MoveSelection(sel, s) ==
    IF s # 0 /\ s # sel.item
    THEN LET sel1 == IF sel.item # 0 THEN setSelected(sel, sel.item, FALSE) ELSE sel
         IN  [setSelected(sel1, s, TRUE)
                EXCEPT !.item = s, !.calls = Append(@, ItemSelectedSignal(s))]
    ELSE sel

\* a deselection that forgets to tell the item
ClearSelectionSilently(sel, s) ==
    IF s = 0 /\ sel.item # 0
    THEN [sel EXCEPT !.item = 0, !.calls = Append(@, DeselectedSignal)]
    ELSE sel

\* "If the click didn't land on any item, and there was one previously selected"
ClearSelection(sel, s) ==
    IF s = 0 /\ sel.item # 0
    THEN [setSelected(sel, sel.item, FALSE)
            EXCEPT !.item = 0, !.calls = Append(@, DeselectedSignal)]
    ELSE sel

\* MPlotPlotSelectorTool::mousePressEvent on tool t; hit is the set of the
\* plot's selectable items within the ballpark of the click
SelectorPress(t, hit) ==
    LET c == ChooseItem(selectedPossibilities(hit), selIndex)
        sel0 == [selected |-> isSelected[t], item |-> selectedItem_[t],
                 calls |-> <<>>]
        sel == ClearSelection(MoveSelection(sel0, c.s), c.s)
    IN  /\ selIndex < MaxPresses
        /\ selIndex' = c.index
        /\ selectedItem_' = [selectedItem_ EXCEPT ![t] = sel.item]
        /\ isSelected' = [isSelected EXCEPT ![t] = sel.selected]
        /\ calls' = sel.calls
        /\ pressed' = [pressed EXCEPT ![t] = [hit |-> hit, chosen |-> c.s]]
        /\ last' = Event("selectorPress", t, hit)
        /\ UNCHANGED <<cursorVars, modelVars, dragVars, axisVars, plotVars, wheelVars, zooms, trail>>

-----------------------------------------------------------------------------
(* MPlotWheelZoomerTool *)

\* wheel events in one behaviour
MaxWheels == 2

\* wheel rotations, in eighths of a degree: one click either way, none, five
\* clicks forward
Deltas == {-120, 0, 120, 600}

ZoomIncrements == {<<1, 4>>, <<-1, 2>>}

\* MPlotWheelZoomerTool::setZoomIncrement
SetZoomIncrement(zi) ==
    /\ zf_ # RAbs(zi)
    /\ zf_' = RAbs(zi)
    /\ last' = Event("setZoomIncrement", "None", NoPoint)
    /\ calls' = <<>>
    /\ UNCHANGED <<cursorVars, modelVars, dragVars, axisVars, plotVars, wheelTargetAxes_, wheels,
                   selVars, zooms, trail>>

\* MPlotAbstractTool::setTargetAxes on the wheel zoomer
SetWheelTargetAxes(list) ==
    /\ list # wheelTargetAxes_
    /\ wheelTargetAxes_' = list
    /\ last' = Event("setWheelTargetAxes", "None", NoPoint)
    /\ calls' = <<>>
    /\ UNCHANGED <<cursorVars, modelVars, dragVars, axisVars, plotVars, zf_, wheels, selVars, zooms,
                   trail>>

\* a zoom factor that adds the increment when scrolling backwards
ZoomFactorAdds(zf, delta) ==
    IF delta < 0
    THEN RAdd(RInt(1), RMin(RDiv(RMul(zf, RInt(Abs(delta))), RInt(120)), <<9, 10>>))
    ELSE RSub(RInt(1), RMin(RDiv(RMul(zf, RInt(Abs(delta))), RInt(120)), <<9, 10>>))

\* F = 1 - qMin(zf_ * fabs(delta) / 120, 0.9), and 1/F when delta < 0
ZoomFactor(zf, delta) ==
    LET F == RSub(RInt(1),
                  RMin(RDiv(RMul(zf, RInt(Abs(delta))), RInt(120)), <<9, 10>>))
    IN  IF delta < 0 THEN RDiv(RInt(1), F) ELSE F

\* one pass of the loop of wheelEvent
WheelOneAxis(axis, st, F, p) ==
    LET drawingPos == IF orientation(axis) = "Vertical" THEN p[2] ELSE p[1]
        dataPos == mapDrawingToData(axis, st.ranges[axis], RInt(drawingPos))
        newMin == RAdd(dataPos, RMul(F, RSub(st.ranges[axis][1], dataPos)))
        newMax == RAdd(dataPos, RMul(F, RSub(st.ranges[axis][2], dataPos)))
    IN  setDataRange(st, axis, AxisRange(newMin, newMax))

RECURSIVE WheelTargets(_, _, _, _, _)
WheelTargets(i, st, targets, F, p) ==
    IF i > Len(targets) THEN st
    ELSE WheelTargets(i + 1, WheelOneAxis(targets[i], st, F, p), targets, F, p)

\* MPlotWheelZoomerTool::wheelEvent
WheelEvent(delta, p) ==
    /\ wheels < MaxWheels
    /\ wheels' = wheels + 1
    /\ Commit(WheelTargets(1, Here, wheelTargetAxes_, ZoomFactor(zf_, delta), p))
    /\ last' = Event("wheel", delta, p)
    /\ UNCHANGED <<cursorVars, modelVars, dragVars, zf_, wheelTargetAxes_, selVars, zooms, trail>>

-----------------------------------------------------------------------------
(* MPlotCursorTool.  Each cursor tool sits on its own plot; activeCursor is  *)
(* the static local of mousePressEvent, one for all the tools.  A cursor is  *)
(* an MPlotPoint: its axis targets ("none" for a null pointer) and value.    *)

\* cursors on one tool
MaxCursors == 2
\* left presses on cursor tools in one behaviour
MaxCursorPresses == 4

CursorTools == {1, 2}

\* the axis scales addCursor is called with
CursorTargets == {<<"Bottom", "none">>, <<"none", "Left">>}

\* where the cursor tools are pressed
CursorPoints == {<<4, 0>>, <<8, 8>>}

\* MPlotCursorTool::numCursors
numCursors(t) == Len(cursors_[t])

\* MPlot::addItem(newItem) with its default arguments targets the item to the
\* plot's Left and Bottom axis scales
AddItemTargets == <<"Bottom", "Left">>

\* MPlotCursorTool::addCursor on a tool that is on a plot, initialPos (0, 0):
\* the new point is added to the plot, then given the axis scales that are
\* not null
AddCursor(t, xy) ==
    /\ ~crashed
    /\ numCursors(t) < MaxCursors
    /\ cursors_' = [cursors_ EXCEPT ![t] =
            Append(@, [xAxisTarget |-> IF xy[1] # "none" THEN xy[1]
                                       ELSE AddItemTargets[1],
                       yAxisTarget |-> IF xy[2] # "none" THEN xy[2]
                                       ELSE AddItemTargets[2],
                       value |-> <<RInt(0), RInt(0)>>])]
    /\ movedCursors' = [movedCursors EXCEPT ![t] = <<>>]
    /\ last' = Event("addCursor", <<t, "None">>, NoPoint)
    /\ calls' = <<>>
    /\ UNCHANGED <<modelVars, dragVars, axisVars, plotVars, wheelVars, selVars,
                   countVars, activeCursor, crashed>>

\* MPlotCursorTool::removeCursor
RemoveCursor(t) ==
    /\ ~crashed
    /\ cursors_' = [cursors_ EXCEPT ![t] =
            IF Len(@) > 0 THEN SubSeq(@, 1, Len(@) - 1) ELSE @]
    /\ movedCursors' = [movedCursors EXCEPT ![t] = <<>>]
    /\ last' = Event("removeCursor", <<t, "None">>, NoPoint)
    /\ calls' = <<>>
    /\ UNCHANGED <<modelVars, dragVars, axisVars, plotVars, wheelVars, selVars,
                   countVars, activeCursor, crashed>>

ValueChangedSignal(c, pos) == [fn |-> "valueChanged", on |-> c, arg |-> pos]

\* the position a press gives a cursor: each coordinate mapped from drawing to
\* data through the cursor's axis target when it has one
CursorPosition(cursor, p) ==
    LET y == IF cursor.yAxisTarget # "none"
             THEN mapDrawingToData(cursor.yAxisTarget,
                                   dataRange[cursor.yAxisTarget], RInt(p[2]))
             ELSE RInt(p[2])
        x == IF cursor.xAxisTarget # "none"
             THEN mapDrawingToData(cursor.xAxisTarget,
                                   dataRange[cursor.xAxisTarget], RInt(p[1]))
             ELSE RInt(p[1])
    IN  <<x, y>>

\* c = activeCursor % numCursors()
ActiveIndex(active, n) == active % n

\* MPlotCursorTool::mousePressEvent on tool t.  With no cursor the modulo by
\* zero is undefined: the press ends the run.  (A cursor is put on the plot
\* by addCursor, so cursor->plot() is plot() here.)
CursorPress(t, b, p) ==
    /\ ~crashed
    /\ b = "Left" => activeCursor < MaxCursorPresses
    /\ last' = Event("cursorPress", <<t, b>>, IF b = "Left" THEN p ELSE NoPoint)
    /\ IF b = "Left" /\ numCursors(t) = 0
       THEN /\ crashed' = TRUE
            /\ calls' = <<>>
            /\ UNCHANGED <<activeCursor, cursors_, movedCursors>>
       ELSE IF b = "Left"
       THEN LET c == ActiveIndex(activeCursor, numCursors(t))
                newPos == CursorPosition(cursors_[t][c + 1], p)
            IN  /\ cursors_' = [cursors_ EXCEPT ![t][c + 1].value = newPos]
                /\ calls' = <<ValueChangedSignal(c, newPos)>>
                /\ activeCursor' = activeCursor + 1
                /\ movedCursors' = [movedCursors EXCEPT ![t] = Append(@, c)]
                /\ UNCHANGED crashed
       ELSE /\ calls' = <<>>
            /\ UNCHANGED <<activeCursor, cursors_, crashed, movedCursors>>
    /\ UNCHANGED <<modelVars, dragVars, axisVars, plotVars, wheelVars, selVars,
                   countVars>>

-----------------------------------------------------------------------------
(* MPlotRealtimeModel: two queues of x and y values and the (0-based)        *)
(* indexes of the points that hold the minimum and maximum of each.          *)

\* points the model holds at most
MaxPoints == 3

\* the x and y values inserted and set
ModelValues == {0, 1, 2}

\* the columns of the table model: 0 is x, 1 is y
ModelColumns == {0, 1}

\* QList::at
At(list, i) == list[i + 1]

\* first index of the largest value, -1 for an empty list
searchMaxIndex(list) ==
    IF Len(list) = 0 THEN -1
    ELSE CHOOSE i \in 0..(Len(list) - 1) :
            /\ \A j \in 0..(Len(list) - 1) : At(list, j) <= At(list, i)
            /\ \A j \in 0..(i - 1) : At(list, j) < At(list, i)

\* first index of the smallest value, -1 for an empty list
searchMinIndex(list) ==
    IF Len(list) = 0 THEN -1
    ELSE CHOOSE i \in 0..(Len(list) - 1) :
            /\ \A j \in 0..(Len(list) - 1) : At(list, j) >= At(list, i)
            /\ \A j \in 0..(i - 1) : At(list, j) > At(list, i)

\* minMaxAddCheck for one record holder: list already holds the added value v
\* at index; holder is the index of the record so far; the only point of a
\* list is every record holder, a strictly larger value is the new maximum
AddCheckMax(list, holder, v, index) ==
    IF Len(list) = 1 THEN index
    ELSE IF v > At(list, holder) THEN index ELSE holder

AddCheckMin(list, holder, v, index) ==
    IF Len(list) = 1 THEN index
    ELSE IF v < At(list, holder) THEN index ELSE holder

\* a record holder's index after a point is put in front of it
ShiftForFront(holder) == holder + 1

\* MPlotRealtimeModel::insertPointFront
InsertPointFront(x, y) ==
    /\ Len(xval_) < MaxPoints
    /\ LET xs == <<x>> \o xval_
           ys == <<y>> \o yval_
       IN  /\ xval_' = xs
           /\ yval_' = ys
           /\ minXIndex_' = AddCheckMin(xs, ShiftForFront(minXIndex_), x, 0)
           /\ maxXIndex_' = AddCheckMax(xs, ShiftForFront(maxXIndex_), x, 0)
           /\ minYIndex_' = AddCheckMin(ys, ShiftForFront(minYIndex_), y, 0)
           /\ maxYIndex_' = AddCheckMax(ys, ShiftForFront(maxYIndex_), y, 0)
    /\ last' = Event("insertPointFront", "None", NoPoint)
    /\ calls' = <<>>
    /\ UNCHANGED <<cursorVars, dragVars, axisVars, plotVars, wheelVars, selVars,
                   countVars>>

\* MPlotRealtimeModel::insertPointBack
InsertPointBack(x, y) ==
    /\ Len(xval_) < MaxPoints
    /\ LET xs == Append(xval_, x)
           ys == Append(yval_, y)
           index == Len(xs) - 1
       IN  /\ xval_' = xs
           /\ yval_' = ys
           /\ minXIndex_' = AddCheckMin(xs, minXIndex_, x, index)
           /\ maxXIndex_' = AddCheckMax(xs, maxXIndex_, x, index)
           /\ minYIndex_' = AddCheckMin(ys, minYIndex_, y, index)
           /\ maxYIndex_' = AddCheckMax(ys, maxYIndex_, y, index)
    /\ last' = Event("insertPointBack", "None", NoPoint)
    /\ calls' = <<>>
    /\ UNCHANGED <<cursorVars, dragVars, axisVars, plotVars, wheelVars, selVars,
                   countVars>>

\* what a call returned
Returned(value) == [fn |-> "return", on |-> "model", arg |-> value]

\* a removal that never searches for a new record holder
AfterFrontKeepsHolder(holder, found) == IF holder = 0 THEN 0 ELSE holder - 1

\* a record holder's index after the front point is taken: the holder itself
\* was taken when it was 0, and found is the new search result
AfterFront(holder, found) == IF holder = 0 THEN found ELSE holder - 1

\* the same after the back point is taken from a list that has count left
AfterBack(holder, count, found) == IF holder = count THEN found ELSE holder

\* MPlotRealtimeModel::removePointFront
RemovePointFront ==
    /\ last' = Event("removePointFront", "None", NoPoint)
    /\ IF Len(xval_) = 0
       THEN /\ calls' = <<Returned(FALSE)>>
            /\ UNCHANGED modelVars
       ELSE LET xs == Tail(xval_)
                ys == Tail(yval_)
            IN  /\ xval_' = xs
                /\ yval_' = ys
                /\ minXIndex_' = AfterFront(minXIndex_, searchMinIndex(xs))
                /\ maxXIndex_' = AfterFront(maxXIndex_, searchMaxIndex(xs))
                /\ minYIndex_' = AfterFront(minYIndex_, searchMinIndex(ys))
                /\ maxYIndex_' = AfterFront(maxYIndex_, searchMaxIndex(ys))
                /\ calls' = <<Returned(TRUE)>>
    /\ UNCHANGED <<cursorVars, dragVars, axisVars, plotVars, wheelVars, selVars,
                   countVars>>

\* MPlotRealtimeModel::removePointBack
RemovePointBack ==
    /\ last' = Event("removePointBack", "None", NoPoint)
    /\ IF Len(xval_) = 0
       THEN /\ calls' = <<Returned(FALSE)>>
            /\ UNCHANGED modelVars
       ELSE LET xs == SubSeq(xval_, 1, Len(xval_) - 1)
                ys == SubSeq(yval_, 1, Len(yval_) - 1)
                n == Len(xs)
            IN  /\ xval_' = xs
                /\ yval_' = ys
                /\ minXIndex_' = AfterBack(minXIndex_, n, searchMinIndex(xs))
                /\ maxXIndex_' = AfterBack(maxXIndex_, n, searchMaxIndex(xs))
                /\ minYIndex_' = AfterBack(minYIndex_, n, searchMinIndex(ys))
                /\ maxYIndex_' = AfterBack(maxYIndex_, n, searchMaxIndex(ys))
                /\ calls' = <<Returned(TRUE)>>
    /\ UNCHANGED <<cursorVars, dragVars, axisVars, plotVars, wheelVars, selVars,
                   countVars>>

\* minMaxChangeCheckX / minMaxChangeCheckY for one record holder: list holds
\* the new value at index, oldVal is the value it replaced.  A holder that got
\* worse is searched for again; a better value elsewhere takes the record.
ChangeCheckMax(list, holder, oldVal, index) ==
    IF index = holder
    THEN IF At(list, index) < oldVal THEN searchMaxIndex(list) ELSE holder
    ELSE IF At(list, index) > At(list, holder) THEN index ELSE holder

ChangeCheckMin(list, holder, oldVal, index) ==
    IF index = holder
    THEN IF At(list, index) > oldVal THEN searchMinIndex(list) ELSE holder
    ELSE IF At(list, index) < At(list, holder) THEN index ELSE holder

\* MPlotRealtimeModel::setData on the cell (row, column): a cell outside the
\* table is refused
SetData(row, column, value) ==
    /\ last' = Event("setData", "None", NoPoint)
    /\ IF row >= Len(xval_)
       THEN /\ calls' = <<Returned(FALSE)>>
            /\ UNCHANGED modelVars
       ELSE IF column = 0
       THEN LET xs == [xval_ EXCEPT ![row + 1] = value]
            IN  /\ xval_' = xs
                /\ minXIndex_' = ChangeCheckMin(xs, minXIndex_, At(xval_, row), row)
                /\ maxXIndex_' = ChangeCheckMax(xs, maxXIndex_, At(xval_, row), row)
                /\ calls' = <<Returned(TRUE)>>
                /\ UNCHANGED <<yval_, minYIndex_, maxYIndex_>>
       ELSE LET ys == [yval_ EXCEPT ![row + 1] = value]
            IN  /\ yval_' = ys
                /\ minYIndex_' = ChangeCheckMin(ys, minYIndex_, At(yval_, row), row)
                /\ maxYIndex_' = ChangeCheckMax(ys, maxYIndex_, At(yval_, row), row)
                /\ calls' = <<Returned(TRUE)>>
                /\ UNCHANGED <<xval_, minXIndex_, maxXIndex_>>
    /\ UNCHANGED <<cursorVars, dragVars, axisVars, plotVars, wheelVars, selVars,
                   countVars>>

\* MPlotRealtimeModel::minX, maxX, minY, maxY (only on a non-empty model)
minX == At(xval_, minXIndex_)
maxX == At(xval_, maxXIndex_)
minY == At(yval_, minYIndex_)
maxY == At(yval_, maxYIndex_)

\* the null rectangle of an empty model
NullRect == <<0, 0, 0, 0>>

\* MPlotRealtimeModel::boundingRect: (left, top, width, height)
boundingRect ==
    IF Len(xval_) = 0 THEN NullRect
    ELSE <<minX, minY, maxX - minX, maxY - minY>>

-----------------------------------------------------------------------------

InitDrag ==
    /\ dragStarted_ = FALSE
    /\ dragInProgress_ = FALSE
    /\ oldZooms_ = <<>>
    /\ targetAxes_ = <<"Left", "Bottom">>
    /\ selectionRect_ = "null"
    /\ buttonDownPos = <<0, 0>>

InitAxes ==
    /\ dataRange = [a \in Axes |-> InitialRange(a)]
    /\ autoScaleEnabled = [a \in Axes |-> FALSE]

InitPlot ==
    /\ autoScaleScheduled_ = FALSE
    /\ pendingTimers = 0

InitHistory ==
    /\ last = Event("init", "None", NoPoint)
    /\ calls = <<>>
    /\ zooms = 0
    /\ trail = <<>>

InitWheel ==
    /\ zf_ = <<1, 4>>
    /\ wheelTargetAxes_ = <<"Left", "Bottom">>
    /\ wheels = 0

InitSelector ==
    /\ selIndex = 0
    /\ selectedItem_ = [t \in Tools |-> 0]
    /\ isSelected = [t \in Tools |-> [i \in Items |-> FALSE]]
    /\ pressed = [t \in Tools |-> [hit |-> {}, chosen |-> 0]]

InitCursor ==
    /\ activeCursor = 0
    /\ cursors_ = [t \in CursorTools |-> <<>>]
    /\ crashed = FALSE
    /\ movedCursors = [t \in CursorTools |-> <<>>]

InitModel ==
    /\ xval_ = <<>>
    /\ yval_ = <<>>
    /\ minYIndex_ = -1
    /\ maxYIndex_ = -1
    /\ minXIndex_ = -1
    /\ maxXIndex_ = -1

Init ==
    /\ InitDrag /\ InitAxes /\ InitPlot /\ InitHistory /\ InitWheel /\ InitSelector
    /\ InitCursor /\ InitModel

Next ==
    \/ \E b \in Buttons, p \in Points : DragPress(b, p)
    \/ \E p \in Points : DragMove(p)
    \/ \E b \in Buttons, p \in Points : DragRelease(b, p)
    \/ \E l \in TargetLists : SetTargetAxes(l)

Spec == Init /\ [][Next]_vars

NextPlot ==
    \/ OnBoundsChanged
    \/ \E a \in Axes, b \in BOOLEAN : SetAxisAutoScale(a, b)
    \/ EventLoopTimer
    \/ ManualAutoScale

SpecPlot == Init /\ [][NextPlot]_vars

NextSelector == \E t \in Tools, hit \in SUBSET Items : SelectorPress(t, hit)

SpecSelector == Init /\ [][NextSelector]_vars

NextWheel ==
    \/ \E delta \in Deltas, p \in Points : WheelEvent(delta, p)
    \/ \E zi \in ZoomIncrements : SetZoomIncrement(zi)
    \/ \E l \in TargetLists : SetWheelTargetAxes(l)

SpecWheel == Init /\ [][NextWheel]_vars

NextCursor ==
    \/ \E t \in CursorTools, xy \in CursorTargets : AddCursor(t, xy)
    \/ \E t \in CursorTools : RemoveCursor(t)
    \/ \E t \in CursorTools, b \in Buttons, p \in CursorPoints : CursorPress(t, b, p)

SpecCursor == Init /\ [][NextCursor]_vars

NextRealtime ==
    \/ \E x \in ModelValues, y \in ModelValues : InsertPointFront(x, y)
    \/ \E x \in ModelValues, y \in ModelValues : InsertPointBack(x, y)
    \/ RemovePointFront
    \/ RemovePointBack
    \/ \E row \in 0..(MaxPoints - 1), column \in ModelColumns, value \in ModelValues :
          SetData(row, column, value)

SpecRealtime == Init /\ [][NextRealtime]_vars

-----------------------------------------------------------------------------
(* Properties of the drag zoomer *)

IsTarget(a) == Contains(targetAxes_, a)

\* the drag extent along an axis, in drawing coordinates, lower end first
DragExtent(a, down, up) ==
    LET d == IF orientation(a) = "Vertical" THEN down[2] ELSE down[1]
        u == IF orientation(a) = "Vertical" THEN up[2] ELSE up[1]
    IN  IF d <= u THEN <<d, u>> ELSE <<u, d>>

\* the data range a drag extent maps to on an axis whose range is r
ZoomedRange(a, r, down, up) ==
    LET e == DragExtent(a, down, up)
    IN  AxisRange(mapDrawingToData(a, r, RInt(e[1])),
                  mapDrawingToData(a, r, RInt(e[2])))

SetsARange(cs) == \E i \in 1..Len(cs) : cs[i].fn = "setDataRange"
SetsAutoScale(cs) == \E i \in 1..Len(cs) : cs[i].fn = "setAutoScaleEnabled"

\* a step of mouseReleaseEvent with the left button that ends a drag
LeftReleaseOfDrag ==
    /\ last'.op = "dragRelease" /\ last'.button = "Left"
    /\ dragInProgress_

\* a step of mouseReleaseEvent with the right button and no drag in progress
RightReleaseNoDrag ==
    /\ last'.op = "dragRelease" /\ last'.button = "Right"
    /\ ~dragInProgress_

\* C1: a left-button release that ends a drag pushes exactly one entry, which
\* holds for every target axis the data range it had just before the release;
\* every target axis gets the range mapped from the drag extent along its
\* orientation; and no drag is in progress afterwards.
C1_LeftReleaseZooms ==
    [][LeftReleaseOfDrag =>
        /\ Len(oldZooms_') = Len(oldZooms_) + 1
        /\ SubSeq(oldZooms_', 1, Len(oldZooms_)) = oldZooms_
        /\ LET pushed == oldZooms_'[Len(oldZooms_')]
           IN  /\ Len(pushed) = Len(targetAxes_)
               /\ \A i \in 1..Len(pushed) :
                    pushed[i] = <<targetAxes_[i], dataRange[targetAxes_[i]]>>
        /\ \A a \in Axes :
             IsTarget(a) =>
                dataRange'[a] = ZoomedRange(a, dataRange[a], buttonDownPos, last'.pos)
        /\ ~dragInProgress_'
      ]_vars

\* a second zoom has just been pushed, and both axes were zoomed twice
C1_Witness ==
    /\ last.op = "dragRelease" /\ last.button = "Left" /\ last.pos # NoPoint
    /\ Len(oldZooms_) = 2
    /\ Len(oldZooms_[2]) = 2
    /\ oldZooms_[2][1][2] # InitialRange("Left")
    /\ dataRange["Left"] # oldZooms_[2][1][2]
    /\ ~dragInProgress_

\* C2: a right-button release with no drag in progress and a non-empty stack
\* removes exactly the newest entry; as long as the target axes and the ranges
\* were changed by nothing but the zoomer since the zoom it undoes, every target
\* axis gets back the range it had before that zoom (trail holds those ranges),
\* so n zooms followed by n such releases end at the ranges before the first
\* zoom with the stack as it was.
C2_RecallIsLifo ==
    [][(RightReleaseNoDrag /\ Len(oldZooms_) > 0) =>
        /\ oldZooms_' = SubSeq(oldZooms_, 1, Len(oldZooms_) - 1)
        /\ Len(trail) > 0 =>
             /\ \A a \in Axes : IsTarget(a) => dataRange'[a] = trail[Len(trail)][a]
             /\ trail' = SubSeq(trail, 1, Len(trail) - 1)
             /\ Len(trail) <= Len(oldZooms_)
      ]_vars

\* two zooms of both axes and two recalls later: the first ranges are back and
\* the stack is empty
C2_Witness ==
    /\ last.op = "dragRelease" /\ last.button = "Right"
    /\ zooms = 2
    /\ oldZooms_ = <<>>
    /\ targetAxes_ = <<"Left", "Bottom">>
    /\ Len(calls) = 2 /\ SetsARange(calls)
    /\ dataRange = [a \in Axes |-> InitialRange(a)]

C4_RestoreOnlyTargets ==
    [][(RightReleaseNoDrag /\ Len(oldZooms_) > 0) =>
        LET entry == oldZooms_[Len(oldZooms_)]
        IN  /\ \A i \in 1..Len(entry) :
                 dataRange'[entry[i][1]] =
                    IF IsTarget(entry[i][1]) THEN entry[i][2]
                    ELSE dataRange[entry[i][1]]
            /\ \A a \in Axes : ~IsTarget(a) => dataRange'[a] = dataRange[a]
      ]_vars

\* the one zoom of both axes was recalled after Left stopped being a target:
\* Bottom is back at its first range, Left is still zoomed
C4_Witness ==
    /\ last.op = "dragRelease" /\ last.button = "Right"
    /\ zooms = 1
    /\ oldZooms_ = <<>>
    /\ targetAxes_ = <<"Bottom">>
    /\ calls = <<SetDataRangeCall("Bottom", InitialRange("Bottom"))>>
    /\ dataRange["Left"] # InitialRange("Left")

\* C5: a move while dragStarted_ whose Manhattan distance from the button-down
\* position exceeds the dead zone clears dragStarted_, sets dragInProgress_ and
\* turns autoscale off on every target axis; any other move changes neither
\* flag nor any autoscale setting.
C5_MoveStartsDrag ==
    [][last'.op = "dragMove" =>
        IF /\ dragStarted_
           /\ Abs(buttonDownPos[1] - last'.pos[1]) + Abs(buttonDownPos[2] - last'.pos[2]) > 6
        THEN /\ ~dragStarted_'
             /\ dragInProgress_'
             /\ \A a \in Axes : IsTarget(a) => ~autoScaleEnabled'[a]
             /\ \A a \in Axes : ~IsTarget(a) => autoScaleEnabled'[a] = autoScaleEnabled[a]
        ELSE /\ dragStarted_' = dragStarted_
             /\ dragInProgress_' = dragInProgress_
             /\ autoScaleEnabled' = autoScaleEnabled
      ]_vars

\* a move beyond the dead zone has just turned autoscale off on both targets
C5_Witness ==
    /\ last.op = "dragMove"
    /\ dragInProgress_ /\ ~dragStarted_
    /\ calls = <<SetAutoScaleCall("Left", FALSE), SetAutoScaleCall("Bottom", FALSE)>>
    /\ autoScaleScheduled_
    /\ \A a \in Axes : ~autoScaleEnabled[a]

-----------------------------------------------------------------------------
(* Properties of the plot's deferred autoscale *)

Recomputes(cs) == \E i \in 1..Len(cs) : cs[i] = RecomputeCall

\* the recomputations done if the n pending timers fire one after the other
RECURSIVE DrainRecomputes(_, _)
DrainRecomputes(st, n) ==
    IF n = 0 THEN 0
    ELSE LET st1 == doDelayedAutoScale([st EXCEPT !.calls = <<>>])
         IN  (IF Recomputes(st1.calls) THEN 1 ELSE 0) + DrainRecomputes(st1, n - 1)

\* C6: however many notifications were received, the timers pending in the
\* event loop recompute the autoscale once when one is scheduled and not at all
\* otherwise; a call of doDelayedAutoScale recomputes only if one was scheduled,
\* and none is scheduled after it.
C6_DeferredAutoScale ==
    /\ [](DrainRecomputes(Here, pendingTimers) = IF autoScaleScheduled_ THEN 1 ELSE 0)
    /\ [][last'.op \in {"timer", "manual"} =>
            /\ Recomputes(calls') => autoScaleScheduled_
            /\ autoScaleScheduled_ => Recomputes(calls')
            /\ ~autoScaleScheduled_'
         ]_vars

\* a timer has just recomputed the autoscale of the Left axis, and an older
\* timer, whose autoscale a manual call already did, is still pending
C6_Witness ==
    /\ last.op = "timer"
    /\ Recomputes(calls)
    /\ pendingTimers = 1
    /\ ~autoScaleScheduled_
    /\ dataRange["Left"] = ItemExtent("Left")

-----------------------------------------------------------------------------
(* Properties of the selector tool *)

IsSelectorPress == last'.op = "selectorPress"

\* C7: two consecutive presses on a selector tool that hit the same two or
\* more items choose different items.
C7_Alternates ==
    [][IsSelectorPress =>
        LET t == last'.button
        IN  (Cardinality(last'.pos) >= 2 /\ pressed[t].hit = last'.pos) =>
                pressed'[t].chosen # pressed[t].chosen
      ]_vars

\* C8: on every plot at most one item is selected, it is the tool's
\* selectedItem(), which is 0 when none is; and when a press moves the selection
\* to another item the calls are, in this order, setSelected(false) on the old
\* item (if any), setSelected(true) on the new one, itemSelected(new).
C8_OneSelected ==
    /\ [](\A t \in Tools : \A i \in Items : isSelected[t][i] <=> selectedItem_[t] = i)
    /\ [][IsSelectorPress =>
            LET t == last'.button
                old == selectedItem_[t]
                new == selectedItem_'[t]
            IN  (new # 0 /\ new # old) =>
                    calls' = (IF old # 0 THEN <<SetSelectedCall(old, FALSE)>> ELSE <<>>)
                             \o <<SetSelectedCall(new, TRUE), ItemSelectedSignal(new)>>
         ]_vars

\* the selection of tool 1 has just moved from one item to another
C8_Witness ==
    /\ last.op = "selectorPress" /\ last.button = 1
    /\ Len(calls) = 3
    /\ calls[1] = SetSelectedCall(1, FALSE)
    /\ calls[2] = SetSelectedCall(2, TRUE)
    /\ selectedItem_[1] = 2
    /\ selectedItem_[2] # 0

\* C9: a press that lands on no item while an item is selected deselects it,
\* sets selectedItem() to 0 and emits deselected once; a press that lands on no
\* item while nothing is selected, or whose chosen item is the selected one,
\* changes no selection state and emits nothing.
C9_Deselect ==
    [][IsSelectorPress =>
        LET t == last'.button
            old == selectedItem_[t]
            s == pressed'[t].chosen
        IN  /\ (s = 0) = (last'.pos = {})
            /\ (s = 0 /\ old # 0) =>
                    /\ calls' = <<SetSelectedCall(old, FALSE), DeselectedSignal>>
                    /\ selectedItem_'[t] = 0
                    /\ \A i \in Items : ~isSelected'[t][i]
            /\ ((s = 0 /\ old = 0) \/ s = old) =>
                    /\ calls' = <<>>
                    /\ selectedItem_' = selectedItem_
                    /\ isSelected' = isSelected
            /\ \A u \in Tools \ {t} :
                    /\ selectedItem_'[u] = selectedItem_[u]
                    /\ isSelected'[u] = isSelected[u]
      ]_vars

\* a press beside every item has just deselected the item of tool 1
C9_Witness ==
    /\ last.op = "selectorPress" /\ last.button = 1 /\ last.pos = {}
    /\ calls = <<SetSelectedCall(2, FALSE), DeselectedSignal>>
    /\ selectedItem_[1] = 0

-----------------------------------------------------------------------------
(* Properties of the wheel zoomer *)

IsWheelTarget(a) == Contains(wheelTargetAxes_, a)

\* the factor as the documentation gives it
DocumentedFactor(zf, delta) ==
    LET moved == RDiv(RMul(zf, RInt(Abs(delta))), RInt(120))
        capped == IF RLess(<<9, 10>>, moved) THEN <<9, 10>> ELSE moved
        F == RSub(RInt(1), capped)
    IN  IF delta >= 0 THEN F ELSE RDiv(RInt(1), F)

Length(r) == RSub(r[2], r[1])

\* C10: a wheel event sets every target axis to min' = x + F(min - x),
\* max' = x + F(max - x), x being the data value under the pointer, so that the
\* length of the range is multiplied by F and x keeps its relative position in
\* the range; with delta = 0 no range changes.  Other axes keep their range.
C10_WheelZoomsAboutPointer ==
    [][last'.op = "wheel" =>
        LET delta == last'.button
            F == DocumentedFactor(zf_, delta)
        IN  /\ \A a \in Axes :
                 IsWheelTarget(a) =>
                    LET r == dataRange[a]
                        n == dataRange'[a]
                        d == IF orientation(a) = "Vertical"
                             THEN last'.pos[2] ELSE last'.pos[1]
                        x == mapDrawingToData(a, r, RInt(d))
                    IN  /\ n[1] = RAdd(x, RMul(F, RSub(r[1], x)))
                        /\ n[2] = RAdd(x, RMul(F, RSub(r[2], x)))
                        /\ Length(n) = RMul(F, Length(r))
                        /\ Length(r) # RInt(0) =>
                             /\ Length(n) # RInt(0)
                             /\ RDiv(RSub(x, r[1]), Length(r))
                                  = RDiv(RSub(x, n[1]), Length(n))
            /\ \A a \in Axes : ~IsWheelTarget(a) => dataRange'[a] = dataRange[a]
            /\ delta = 0 => dataRange' = dataRange
      ]_vars

\* a backward click away from the corner has just widened both axes about the
\* pointer
C10_Witness ==
    /\ last.op = "wheel" /\ last.button = -120 /\ last.pos = <<4, 0>>
    /\ wheelTargetAxes_ = <<"Left", "Bottom">>
    /\ Len(calls) = 2
    /\ RLess(RInt(16), Length(dataRange["Bottom"]))
    /\ RLess(RInt(32), Length(dataRange["Left"]))

\* C11: on a wheel click (|delta| = 120) with a zoom increment z <= 0.9 the
\* length of every target axis's range becomes (1 - z) times what it was when
\* scrolling forward and (1 + z) times what it was when scrolling backward.
C11_ClickAddsOrSubtractsIncrement ==
    [][(last'.op = "wheel" /\ Abs(last'.button) = 120 /\ ~RLess(<<9, 10>>, zf_)) =>
        \A a \in Axes :
            IsWheelTarget(a) =>
                Length(dataRange'[a]) =
                    RMul(IF last'.button > 0
                         THEN RSub(RInt(1), zf_)
                         ELSE RAdd(RInt(1), zf_),
                         Length(dataRange[a]))
      ]_vars

-----------------------------------------------------------------------------
(* Cursor tool                                                               *)

\* the step is a left press on cursor tool t, which has at least one cursor
IsCursorPress(t) ==
    /\ last'.op = "cursorPress"
    /\ last'.button = <<t, "Left">>
    /\ numCursors(t) >= 1

\* the last n entries of a sequence of cursor indexes are n different indexes
LastAllDifferent(log, n) ==
    Len(log) >= n =>
        \A i, j \in (Len(log) - n + 1)..Len(log) : i # j => log[i] # log[j]

\* a left press on a tool with n >= 1 cursors moves the cursor at index
\* activeCursor mod n to the clicked position, mapped through the cursor's axis
\* targets, leaves every other cursor alone, emits valueChanged(index, position)
\* and advances activeCursor by one
PressMovesActiveCursor(t) ==
    LET n == numCursors(t)
        c == activeCursor % n
        newPos == CursorPosition(cursors_[t][c + 1], last'.pos)
    IN  /\ cursors_' = [cursors_ EXCEPT ![t][c + 1].value = newPos]
        /\ calls' = <<ValueChangedSignal(c, newPos)>>
        /\ activeCursor' = activeCursor + 1

\* the per-press part of C12 on its own
C12_PressMovesActiveCursor ==
    [][\A t \in CursorTools : IsCursorPress(t) => PressMovesActiveCursor(t)]_vars

\* C12: each left press on a cursor tool with n >= 1 cursors moves exactly the
\* cursor at index activeCursor mod n to the clicked position (mapped through
\* its axis targets), emits valueChanged(index, position) and advances
\* activeCursor by one, and while the tool's number of cursors stays n any n
\* consecutive left presses on it move n different cursors.
C12_MovesEachCursorOnce ==
    [][\A t \in CursorTools :
          IsCursorPress(t) =>
              /\ PressMovesActiveCursor(t)
              /\ LastAllDifferent(movedCursors'[t], numCursors(t))
      ]_vars

-----------------------------------------------------------------------------
(* Realtime model                                                            *)

\* i is a valid index of list and no value of list is smaller (larger) than
\* the one it holds
HoldsMin(list, i) ==
    /\ i \in 0..(Len(list) - 1)
    /\ \A j \in 0..(Len(list) - 1) : At(list, i) <= At(list, j)

HoldsMax(list, i) ==
    /\ i \in 0..(Len(list) - 1)
    /\ \A j \in 0..(Len(list) - 1) : At(list, i) >= At(list, j)

\* low is the smallest value of list and low + extent the largest
Spans(list, low, extent) ==
    /\ \A j \in 1..Len(list) : low <= list[j] /\ list[j] <= low + extent
    /\ \E j \in 1..Len(list) : list[j] = low
    /\ \E j \in 1..Len(list) : list[j] = low + extent

\* the four indexes are valid and point at the extremes, and boundingRect is
\* the rectangle (minX, minY, maxX - minX, maxY - minY) of the data
TracksExtremes ==
    /\ HoldsMin(xval_, minXIndex_)
    /\ HoldsMax(xval_, maxXIndex_)
    /\ HoldsMin(yval_, minYIndex_)
    /\ HoldsMax(yval_, maxYIndex_)
    /\ Spans(xval_, boundingRect[1], boundingRect[3])
    /\ Spans(yval_, boundingRect[2], boundingRect[4])

\* the step is a removePointFront or removePointBack on an empty model
RemoveOnEmpty ==
    /\ last'.op \in {"removePointFront", "removePointBack"}
    /\ Len(xval_) = 0

\* C13: after any sequence of insertPointFront, insertPointBack,
\* removePointFront, removePointBack and setData the x and y queues have the
\* same length and, when the model is not empty, the four min/max indexes are
\* valid indexes of points holding the smallest and largest x and y stored, so
\* that boundingRect() is (minX, minY, maxX - minX, maxY - minY) of the data; a
\* removePointFront or removePointBack on an empty model returns false and
\* changes nothing.
C13_TracksMinMax ==
    /\ [](Len(xval_) = Len(yval_) /\ (Len(xval_) > 0 => TracksExtremes))
    /\ [][RemoveOnEmpty =>
            (calls' = <<Returned(FALSE)>> /\ UNCHANGED modelVars)]_vars

\* the window has slid: a point has been taken from the front, and the model
\* still holds points with different x and different y, the smallest x not in
\* front
C13_Witness ==
    /\ last.op = "removePointFront"
    /\ calls = <<Returned(TRUE)>>
    /\ Len(xval_) >= 2
    /\ minXIndex_ # 0
    /\ minX < maxX
    /\ minY < maxY
=============================================================================
